---- MODULE Spec2Model ----
(***************************************************************************)
(* RandomForestWithInstances (smac/epm/rf_with_instances.py): the adapter  *)
(* around the pyrfr regression forest.  The adapter's fields are the       *)
(* variables; __init__, train, predict and _predict are the actions.       *)
(*                                                                         *)
(* Floating point numbers are modelled as exact fractions n/d together     *)
(* with one NaN value that propagates through arithmetic and makes every   *)
(* comparison false, as IEEE comparisons do.  Rounding is not modelled.    *)
(* The forest engine (pyrfr) is outside the repository: a fit is a         *)
(* function from a row's key to a (mean, variance) pair, drawn from the    *)
(* family Fits when fit is called and fixed until the next fit.            *)
(***************************************************************************)
EXTENDS Integers, Sequences, FiniteSets, TLC

VARIABLES
    pc,                 \* "new" before __init__ has run, "ready" after
    types,              \* self.types
    instance_features,  \* self.instance_features
    rf,                 \* the settings of self.rf
    rf_fit,             \* what self.rf.fit last built
    hypers,             \* self.hypers
    seed,               \* self.seed
    var_threshold,      \* self.var_threshold
    X,                  \* self.X
    Y,                  \* self.Y
    last                \* the last call: its arguments, what it returned or
                        \* raised, the rows it handed to rf.predict, its log

vars == <<pc, types, instance_features, rf, rf_fit, hypers, seed,
          var_threshold, X, Y, last>>

(***************************************************************************)
(* Bounds of the model.                                                    *)
(***************************************************************************)
MaxDim == 6        \* longest feature specification given to __init__
MaxInst == 2       \* most instance rows
MaxBatch == 2      \* most rows of a 2-D input of _predict

(***************************************************************************)
(* Floats.                                                                 *)
(***************************************************************************)
Abs(a) == IF a < 0 THEN -a ELSE a

Max(a, b) == IF a >= b THEN a ELSE b

RECURSIVE Gcd(_, _)
Gcd(a, b) == IF b = 0 THEN a ELSE Gcd(b, a % b)

NaN == [nan |-> TRUE, n |-> 0, d |-> 1]

\* the float n/d, d > 0, in lowest terms
Rat(n, d) ==
    LET g == Gcd(Abs(n), d)
    IN  [nan |-> FALSE, n |-> n \div g, d |-> d \div g]

FromInt(k) == Rat(k, 1)

FAdd(a, b) ==
    IF a.nan \/ b.nan THEN NaN
    ELSE LET g == Gcd(a.d, b.d)
         IN  Rat(a.n * (b.d \div g) + b.n * (a.d \div g), (a.d \div g) * b.d)

FNeg(a) == IF a.nan THEN NaN ELSE Rat(-a.n, a.d)

FSub(a, b) == FAdd(a, FNeg(b))

FMul(a, b) ==
    IF a.nan \/ b.nan THEN NaN
    ELSE LET g1 == Gcd(Abs(a.n), b.d)
             g2 == Gcd(Abs(b.n), a.d)
         IN  Rat((a.n \div g1) * (b.n \div g2), (a.d \div g2) * (b.d \div g1))

\* a / k for an integer k > 0
FDivInt(a, k) ==
    IF a.nan THEN NaN
    ELSE LET g == Gcd(Abs(a.n), k)
         IN  Rat(a.n \div g, a.d * (k \div g))

\* a < b; false when either is NaN
FLt(a, b) ==
    /\ ~a.nan
    /\ ~b.nan
    /\ LET g == Gcd(a.d, b.d)
       IN  a.n * (b.d \div g) < b.n * (a.d \div g)

\* a >= b; false when either is NaN
FGe(a, b) ==
    /\ ~a.nan
    /\ ~b.nan
    /\ LET g == Gcd(a.d, b.d)
       IN  a.n * (b.d \div g) >= b.n * (a.d \div g)

IsNaN(a) == a.nan

\* int(a): truncation toward zero
IntOf(a) == IF a.n >= 0 THEN a.n \div a.d ELSE -((-a.n) \div a.d)

RECURSIVE FSum(_)
FSum(s) == IF s = <<>> THEN FromInt(0) ELSE FAdd(Head(s), FSum(Tail(s)))

\* np.mean of a vector; NaN for an empty one
NpMean(s) == IF s = <<>> THEN NaN ELSE FDivInt(FSum(s), Len(s))

\* np.var of a vector: mean(abs(x - x.mean()) ** 2)
NpVar(s) ==
    LET m == NpMean(s)
        dev(i) == FSub(s[i], m)
    IN  NpMean([i \in 1..Len(s) |-> FMul(dev(i), dev(i))])

(***************************************************************************)
(* Absent values: an attribute not yet assigned, or None.                  *)
(***************************************************************************)
None == [some |-> FALSE, v |-> <<>>]

Some(v) == [some |-> TRUE, v |-> v]

(***************************************************************************)
(* __init__                                                                *)
(***************************************************************************)
DefaultNumTrees == 30
DefaultPointsPerTree == 0
DefaultMinSamplesSplit == 3
DefaultMinSamplesLeaf == 3
DefaultMaxDepth == 20
DefaultMaxNumNodes == 1000
DefaultSeed == 42

DefaultRatioFeatures == Rat(5, 6)

DefaultEpsPurity == Rat(1, 10^8)

DefaultHypers(ratio) ==
    [num_trees |-> DefaultNumTrees, do_bootstrapping |-> TRUE,
     n_points_per_tree |-> DefaultPointsPerTree, ratio_features |-> ratio,
     min_samples_split |-> DefaultMinSamplesSplit,
     min_samples_leaf |-> DefaultMinSamplesLeaf,
     max_depth |-> DefaultMaxDepth, eps_purity |-> DefaultEpsPurity,
     max_num_nodes |-> DefaultMaxNumNodes, seed |-> DefaultSeed]

\* faulty variant of MaxFeatures: the lower limit of 1 is left out
MaxFeatures_NoMin(D, ratio) ==
    IF FGe(ratio, FromInt(1)) THEN 0
    ELSE IntOf(FMul(FromInt(D), ratio))

\* max_features of lines 74-75, for types.shape[0] = D
MaxFeatures(D, ratio) ==
    IF FGe(ratio, FromInt(1)) THEN 0
    ELSE Max(1, IntOf(FMul(FromInt(D), ratio)))

\* 10 ** -5
VarThreshold == Rat(1, 10^5)

\* the adapter's fields when __init__ returns
__init__(t, inst, h) ==
    [types |-> t,
     instance_features |-> inst,
     rf |-> [num_trees |-> h.num_trees, seed |-> h.seed,
             do_bootstrapping |-> h.do_bootstrapping,
             num_data_points_per_tree |-> h.n_points_per_tree,
             max_features |-> MaxFeatures(Len(t), h.ratio_features),
             min_samples_to_split |-> h.min_samples_split,
             min_samples_in_leaf |-> h.min_samples_leaf,
             max_depth |-> h.max_depth,
             epsilon_purity |-> h.eps_purity,
             max_num_nodes |-> h.max_num_nodes],
     hypers |-> <<h.num_trees, h.max_num_nodes, h.do_bootstrapping,
                  h.n_points_per_tree, h.ratio_features, h.min_samples_split,
                  h.min_samples_leaf, h.max_depth, h.eps_purity, h.seed>>,
     seed |-> h.seed,
     var_threshold |-> VarThreshold]

NoCall ==
    [op |-> "none", arg |-> <<>>, raised |-> "", mean |-> <<>>, var |-> <<>>,
     queries |-> <<>>, log |-> <<>>]

(***************************************************************************)
(* The forest engine: pyrfr.regression.binary_rss.                         *)
(***************************************************************************)
Vals == {0, 1}

RECURSIVE SumRow(_)
SumRow(row) == IF row = <<>> THEN 0 ELSE Head(row) + SumRow(Tail(row))

\* what a fitted forest tells rows apart by
Keys == {0, 1}

Key(row) == SumRow(row) % 2

\* the mean per key: one mean for every row, or one that follows the key
MeanFns == {[k \in Keys |-> FromInt(0)], [k \in Keys |-> FromInt(k)]}

\* variances a forest may report: none, half the floor, the floor, 1, NaN
VarVals ==
    {FromInt(0), FDivInt(VarThreshold, 2), VarThreshold, FromInt(1), NaN}

\* every forest rf.fit may build
Fits == [mean : MeanFns, var : [Keys -> VarVals]]

\* rf.predict(x): the pair (mean, variance)
ForestPredict(fit, row) == <<fit.mean[Key(row)], fit.var[Key(row)]>>

(***************************************************************************)
(* Arrays: a matrix is a sequence of rows, a vector is a sequence.         *)
(***************************************************************************)
\* Y[:, 0] exists when every row has a first entry
HasColumn0(M) == \A i \in 1..Len(M) : Len(M[i]) >= 1

Column0(M) == [i \in 1..Len(M) |-> M[i][1]]

\* np.tile(M, (reps, 1))
Tile(M, reps) == [i \in 1..(Len(M) * reps) |-> M[((i - 1) % Len(M)) + 1]]

\* np.hstack((A, B)) of two matrices with as many rows
HStack(A, B) == [i \in 1..Len(A) |-> A[i] \o B[i]]

\* numpy_data_container(X, y, types) accepts consistent shapes only
ContainerOk(Xm, y, t) ==
    /\ Len(Xm) = Len(y)
    /\ \A i \in 1..Len(Xm) : Len(Xm[i]) = Len(t)

(***************************************************************************)
(* train                                                                   *)
(***************************************************************************)
TrainCall(Xa, Ya, raised) ==
    [op |-> "train", arg |-> <<Xa, Ya>>, raised |-> raised, mean |-> <<>>,
     var |-> <<>>, queries |-> <<>>, log |-> <<>>]

\* faulty variant of TrainData: the last column of Y instead of the first
TrainData_LastColumn(Xs, Ys, t) ==
    <<Xs, [i \in 1..Len(Ys) |-> Ys[i][Len(Ys[i])]], t>>

\* the container of lines 113-115
TrainData(Xs, Ys, t) == <<Xs, Column0(Ys), t>>

\* faulty variant of train: X and Y are stored only once the fit succeeded
train_rollback(Xa, Ya) ==
    /\ pc = "ready"
    /\ IF ~HasColumn0(Ya)
       THEN /\ rf_fit' = rf_fit
            /\ last' = TrainCall(Xa, Ya, "IndexError")
            /\ UNCHANGED <<X, Y>>
       ELSE IF ~ContainerOk(Xa, Column0(Ya), types)
       THEN /\ rf_fit' = rf_fit
            /\ last' = TrainCall(Xa, Ya, "ContainerError")
            /\ UNCHANGED <<X, Y>>
       ELSE \/ \E f \in Fits :
                 /\ rf_fit' = Some([data |-> TrainData(Xa, Ya, types),
                                    mean |-> f.mean, var |-> f.var])
                 /\ last' = TrainCall(Xa, Ya, "")
                 /\ X' = Some(Xa)
                 /\ Y' = Some(Ya)
            \/ /\ rf_fit' \in {rf_fit, None}
               /\ last' = TrainCall(Xa, Ya, "FitError")
               /\ UNCHANGED <<X, Y>>
    /\ UNCHANGED <<pc, types, instance_features, rf, hypers, seed,
                   var_threshold>>

train(Xa, Ya) ==
    /\ pc = "ready"
    /\ X' = Some(Xa)
    /\ Y' = Some(Ya)
    /\ IF ~HasColumn0(Ya)
       THEN /\ rf_fit' = rf_fit
            /\ last' = TrainCall(Xa, Ya, "IndexError")
       ELSE IF ~ContainerOk(Xa, Column0(Ya), types)
       THEN /\ rf_fit' = rf_fit
            /\ last' = TrainCall(Xa, Ya, "ContainerError")
       ELSE \/ \E f \in Fits :
                 /\ rf_fit' = Some([data |-> TrainData(Xa, Ya, types),
                                    mean |-> f.mean, var |-> f.var])
                 /\ last' = TrainCall(Xa, Ya, "")
            \/ /\ rf_fit' \in {rf_fit, None}
               /\ last' = TrainCall(Xa, Ya, "FitError")
    /\ UNCHANGED <<pc, types, instance_features, rf, hypers, seed,
                   var_threshold>>

(***************************************************************************)
(* predict                                                                 *)
(***************************************************************************)
\* faulty variant of NoInstances: an instance matrix of no row is missed
NoInstances_NoneOnly(inst) == ~inst.some

NoInstances(inst) == ~inst.some \/ Len(inst.v) = 0

\* X_ of lines 138-144
PredictInput(inst, Xtest) ==
    IF NoInstances(inst) THEN Xtest
    ELSE HStack(Tile(Xtest, Len(inst.v)), inst.v)

\* np.var(s, ddof=1): the divisor is len(s) - 1
NpVarSample(s) ==
    LET m == NpMean(s)
        dev(i) == FSub(s[i], m)
    IN  IF Len(s) <= 1 THEN NaN
        ELSE FDivInt(FSum([i \in 1..Len(s) |-> FMul(dev(i), dev(i))]),
                     Len(s) - 1)

\* faulty variant of PredictResult: the sample variance of the means
PredictResult_SampleVar(fit, X_) ==
    LET out == [i \in 1..Len(X_) |-> ForestPredict(fit, X_[i])]
        mean == [i \in 1..Len(X_) |-> out[i][1]]
        var == [i \in 1..Len(X_) |-> out[i][2]]
    IN  [mean |-> NpMean(mean), var |-> FAdd(NpMean(var), NpVarSample(mean))]

\* faulty variant of PredictResult: the variance of the means is left out
PredictResult_NoBetween(fit, X_) ==
    LET out == [i \in 1..Len(X_) |-> ForestPredict(fit, X_[i])]
        mean == [i \in 1..Len(X_) |-> out[i][1]]
        var == [i \in 1..Len(X_) |-> out[i][2]]
    IN  [mean |-> NpMean(mean), var |-> NpMean(var)]

\* lines 146-156: the per-row loop and the two reductions
PredictResult(fit, X_) ==
    LET out == [i \in 1..Len(X_) |-> ForestPredict(fit, X_[i])]
        mean == [i \in 1..Len(X_) |-> out[i][1]]
        var == [i \in 1..Len(X_) |-> out[i][2]]
    IN  [mean |-> NpMean(mean), var |-> FAdd(NpMean(var), NpVar(mean))]

\* faulty variant of predict: the augmented input is kept as self.X
predict_storing(Xtest) ==
    /\ pc = "ready"
    /\ rf_fit.some
    /\ LET X_ == PredictInput(instance_features, Xtest)
           r == PredictResult(rf_fit.v, X_)
       IN  /\ last' = [op |-> "predict", arg |-> Xtest, raised |-> "",
                       mean |-> r.mean, var |-> r.var, queries |-> X_,
                       log |-> <<>>]
           /\ X' = Some(X_)
    /\ UNCHANGED <<pc, types, instance_features, rf, rf_fit, hypers, seed,
                   var_threshold, Y>>

predict(Xtest) ==
    /\ pc = "ready"
    /\ rf_fit.some
    /\ LET X_ == PredictInput(instance_features, Xtest)
           r == PredictResult(rf_fit.v, X_)
       IN  last' = [op |-> "predict", arg |-> Xtest, raised |-> "",
                    mean |-> r.mean, var |-> r.var, queries |-> X_,
                    log |-> <<>>]
    /\ UNCHANGED <<pc, types, instance_features, rf, rf_fit, hypers, seed,
                   var_threshold, X, Y>>

(***************************************************************************)
(* _predict                                                                *)
(***************************************************************************)
CappingMessage == "Standard deviation is small, capping to 10^-5"

\* faulty variant of ClampBatch: NaN is not replaced
ClampBatch_NoNaN(v, thr) == IF FLt(v, thr) THEN thr ELSE v

\* lines 180-181 on one entry of var
ClampBatch(v, thr) ==
    LET v1 == IF FLt(v, thr) THEN thr ELSE v
    IN  IF IsNaN(v1) THEN thr ELSE v1

\* faulty variant of ClampSingle: NaN is replaced as in the batch path
ClampSingle_WithNaN(v, thr) ==
    IF FLt(v, thr) THEN [var |-> thr, log |-> <<CappingMessage>>]
    ELSE IF IsNaN(v) THEN [var |-> thr, log |-> <<>>]
    ELSE [var |-> v, log |-> <<>>]

\* lines 187-190: the variance and the debug calls made
ClampSingle(v, thr) ==
    IF FLt(v, thr) THEN [var |-> thr, log |-> <<CappingMessage>>]
    ELSE [var |-> v, log |-> <<>>]

_predict(Xin) ==
    /\ pc = "ready"
    /\ rf_fit.some
    /\ IF Xin.ndim > 1
       THEN IF Xin.v = <<>>
            THEN last' = [op |-> "_predict", arg |-> Xin,
                          raised |-> "IndexError", mean |-> <<>>,
                          var |-> <<>>, queries |-> <<>>, log |-> <<>>]
            ELSE LET pred == [i \in 1..Len(Xin.v) |->
                                  ForestPredict(rf_fit.v, Xin.v[i])]
                 IN  last' = [op |-> "_predict", arg |-> Xin, raised |-> "",
                              mean |-> [i \in 1..Len(pred) |-> pred[i][1]],
                              var |-> [i \in 1..Len(pred) |->
                                          ClampBatch(pred[i][2], var_threshold)],
                              queries |-> Xin.v, log |-> <<>>]
       ELSE LET p == ForestPredict(rf_fit.v, Xin.v)
                c == ClampSingle(p[2], var_threshold)
            IN  last' = [op |-> "_predict", arg |-> Xin, raised |-> "",
                         mean |-> <<p[1]>>, var |-> <<c.var>>,
                         queries |-> <<Xin.v>>, log |-> c.log]
    /\ UNCHANGED <<pc, types, instance_features, rf, rf_fit, hypers, seed,
                   var_threshold, X, Y>>

(***************************************************************************)
(* Inputs.                                                                 *)
(***************************************************************************)
\* matrices of n rows drawn from rows
Matrices(rows, n) == [1..n -> rows]

\* a test point, and the rows of the configuration part of X
XRows == [1..1 -> Vals]

\* feature specifications of D dimensions
TypeSpecs(D) == {[i \in 1..D |-> 0], [i \in 1..D |-> IF i = 1 THEN 2 ELSE 0]}

InstanceSets ==
    {None} \cup {Some(m) : m \in UNION {Matrices(XRows, k) : k \in 0..MaxInst}}

Ratios ==
    {Rat(-1, 2), Rat(1, 3), Rat(1, 2), DefaultRatioFeatures, Rat(99, 100),
     Rat(1, 1), Rat(3, 2)}

\* N x D inputs: one point each
TrainXs == Matrices(XRows, 1)

\* targets: one row of two columns, one row of no column (Y[:, 0] raises),
\* and no row at all (not as many targets as points)
TrainYs == {<< <<0, 1>> >>, << <<>> >>, <<>>}

PredictInputs == Matrices(XRows, 1)

\* 1-D inputs of _predict
InternalPoints == {[ndim |-> 1, v |-> r] : r \in XRows}

\* 2-D inputs of _predict
InternalBatches ==
    {[ndim |-> 2, v |-> m] :
        m \in UNION {Matrices(XRows, k) : k \in 0..MaxBatch}}

(***************************************************************************)
(* The adapter in use: constructed, then any calls.                        *)
(***************************************************************************)
Init ==
    \E t \in {<<0>>}, inst \in InstanceSets :
        LET o == __init__(t, inst, DefaultHypers(DefaultRatioFeatures))
        IN  /\ pc = "ready"
            /\ types = o.types
            /\ instance_features = o.instance_features
            /\ rf = o.rf
            /\ rf_fit = None
            /\ hypers = o.hypers
            /\ seed = o.seed
            /\ var_threshold = o.var_threshold
            /\ X = None
            /\ Y = None
            /\ last = NoCall

Train == \E Xa \in TrainXs, Ya \in TrainYs : train(Xa, Ya)

Predict == \E Xtest \in PredictInputs : predict(Xtest)

PredictInternal ==
    \/ \E Xin \in InternalPoints : _predict(Xin)
    \/ \E Xin \in InternalBatches : _predict(Xin)

Next == Train \/ Predict \/ PredictInternal

Spec == Init /\ [][Next]_vars

(***************************************************************************)
(* Construction alone, over longer feature specifications and more ratios. *)
(***************************************************************************)
InitNew ==
    /\ pc = "new"
    /\ types = <<>>
    /\ instance_features = None
    /\ rf = None
    /\ rf_fit = None
    /\ hypers = <<>>
    /\ seed = 0
    /\ var_threshold = NaN
    /\ X = None
    /\ Y = None
    /\ last = NoCall

Construct(t, inst, h) ==
    /\ pc = "new"
    /\ pc' = "ready"
    /\ LET o == __init__(t, inst, h)
       IN  /\ types' = o.types
           /\ instance_features' = o.instance_features
           /\ rf' = o.rf
           /\ hypers' = o.hypers
           /\ seed' = o.seed
           /\ var_threshold' = o.var_threshold
    /\ last' = [op |-> "__init__", arg |-> <<t, inst, h>>, raised |-> "",
                mean |-> <<>>, var |-> <<>>, queries |-> <<>>, log |-> <<>>]
    /\ UNCHANGED <<rf_fit, X, Y>>

NextCtor ==
    \E D \in 1..MaxDim, inst \in {None, Some(<< <<0>> >>)}, ratio \in Ratios :
        \E t \in TypeSpecs(D) : Construct(t, inst, DefaultHypers(ratio))

SpecCtor == InitNew /\ [][NextCtor]_vars

(***************************************************************************)
(* Properties.                                                             *)
(***************************************************************************)
FloorDiv(a, b) == a \div b

CtorTypes == last.arg[1]

CtorRatio == last.arg[3].ratio_features

\* C1: the max-features value forwarded to the forest is 0 when the ratio
\* is >= 1.0 and max(1, floor(D * ratio)) otherwise, which is never 0;
\* D = 6 with ratio 5/6 gives 5 and D = 2 with ratio 5/6 gives 1.
C1_MaxFeaturesForwarded ==
    last.op = "__init__" =>
        LET D == Len(CtorTypes)
            r == CtorRatio
            fl == FloorDiv(D * r.n, r.d)
            mf == rf.max_features
        IN  /\ r.n >= r.d => mf = 0
            /\ r.n < r.d => mf = (IF fl > 1 THEN fl ELSE 1) /\ mf # 0
            /\ (D = 6 /\ r.n = 5 /\ r.d = 6) => mf = 5
            /\ (D = 2 /\ r.n = 5 /\ r.d = 6) => mf = 1

C1_Witness ==
    /\ last.op = "__init__"
    /\ Len(CtorTypes) = 6
    /\ CtorRatio = Rat(5, 6)
    /\ rf.max_features = 5

(***************************************************************************)
(* What the forest reports for the rows of the last predict call.          *)
(***************************************************************************)
InstRows == instance_features.v

HasInstances == instance_features.some /\ Len(InstRows) >= 1

\* the test point followed by each instance's features, in instance order
AugmentedRows == [i \in 1..Len(InstRows) |-> last.arg[1] \o InstRows[i]]

RowMeans(rows) == [i \in 1..Len(rows) |-> ForestPredict(rf_fit.v, rows[i])[1]]

RowVars(rows) == [i \in 1..Len(rows) |-> ForestPredict(rf_fit.v, rows[i])[2]]

SumSq(s) == FSum([i \in 1..Len(s) |-> FMul(s[i], s[i])])

AnyNaN(s) == \E i \in 1..Len(s) : s[i].nan

AllSame(s) == \A i, j \in 1..Len(s) : s[i] = s[j]

\* C2: with K >= 1 instance rows, predict queries the forest once per
\* instance, in instance order, on the test point followed by the instance's
\* features; the mean returned is the mean of the K means (K * mean = sum),
\* the variance returned is the mean of the K variances plus the population
\* variance of the K means (K^2 * var = K * sum v + K * sum m^2 - (sum m)^2).
C2_PredictMarginalises ==
    (last.op = "predict" /\ HasInstances) =>
        LET K == Len(InstRows)
            m == RowMeans(AugmentedRows)
            v == RowVars(AugmentedRows)
        IN  /\ last.queries = AugmentedRows
            /\ FMul(FromInt(K), last.mean) = FSum(m)
            /\ IF AnyNaN(v) THEN IsNaN(last.var)
               ELSE FMul(FromInt(K * K), last.var)
                      = FSub(FAdd(FMul(FromInt(K), FSum(v)),
                                  FMul(FromInt(K), SumSq(m))),
                             FMul(FSum(m), FSum(m)))

C2_Witness ==
    /\ last.op = "predict"
    /\ HasInstances
    /\ Len(InstRows) = 2
    /\ InstRows[1] # InstRows[2]
    /\ ~AllSame(RowMeans(AugmentedRows))
    /\ ~AllSame(RowVars(AugmentedRows))
    /\ ~AnyNaN(RowVars(AugmentedRows))

\* C3 as stated: with K instance rows the variance returned by predict is
\* always >= the mean of the K variances the forest reports, and equals it
\* exactly when all K means are identical.
C3_AsStated ==
    (last.op = "predict" /\ HasInstances) =>
        LET K == Len(InstRows)
            m == RowMeans(AugmentedRows)
            v == RowVars(AugmentedRows)
        IN  /\ FGe(FMul(FromInt(K), last.var), FSum(v))
            /\ (FMul(FromInt(K), last.var) = FSum(v)) <=> AllSame(m)

\* C3 amended: when none of the K variances the forest reports is NaN, the
\* variance returned by predict is >= their mean and equals it exactly when
\* all K means are identical; when one of them is NaN the variance returned
\* is NaN, which is >= nothing.
C3_BetweenTermNonNegative ==
    (last.op = "predict" /\ HasInstances) =>
        LET K == Len(InstRows)
            m == RowMeans(AugmentedRows)
            v == RowVars(AugmentedRows)
        IN  IF AnyNaN(v)
            THEN IsNaN(last.var) /\ ~FGe(FMul(FromInt(K), last.var), FSum(v))
            ELSE /\ FGe(FMul(FromInt(K), last.var), FSum(v))
                 /\ (FMul(FromInt(K), last.var) = FSum(v)) <=> AllSame(m)

C3_Witness ==
    /\ last.op = "predict"
    /\ HasInstances
    /\ Len(InstRows) = 2
    /\ ~AnyNaN(RowVars(AugmentedRows))
    /\ ~AllSame(RowMeans(AugmentedRows))
    /\ FLt(FSum(RowVars(AugmentedRows)), FMul(FromInt(2), last.var))

\* C4: with no instance features (None, or a matrix of no row) predict
\* queries the forest on the test point alone and returns the forest's mean
\* and variance for it unchanged.
C4_NoInstancesDirect ==
    (last.op = "predict" /\ ~HasInstances) =>
        LET p == ForestPredict(rf_fit.v, last.arg[1])
        IN  /\ last.queries = <<last.arg[1]>>
            /\ last.mean = p[1]
            /\ last.var = p[2]

C4_Witness ==
    /\ last.op = "predict"
    /\ instance_features.some
    /\ Len(InstRows) = 0
    /\ last.queries = last.arg
    /\ last.var = FromInt(1)

\* C5 as stated: after a successful train the variance returned by predict
\* is never below the variance floor.
C5_PredictVarianceFloor ==
    last.op = "predict" => ~FLt(last.var, var_threshold)

(***************************************************************************)
(* _predict                                                                *)
(***************************************************************************)
\* v is a number below 10^-5
BelowFloor(v) == ~v.nan /\ v.n * 10^5 < v.d

Floor == [nan |-> FALSE, n |-> 1, d |-> 10^5]

\* C6: in the batch path of _predict, for every row i the variance returned
\* is the floor when the forest's variance for the row is below the floor
\* or NaN and the forest's variance otherwise, and the mean returned is the
\* forest's mean; no variance returned is NaN or below the floor; there is
\* one entry per input row, in input order.  (A batch of no row returns
\* nothing: indexing the empty prediction array raises.)
C6_BatchClamp ==
    (last.op = "_predict" /\ last.arg.ndim = 2) =>
        LET rows == last.arg.v
            N == Len(rows)
        IN  /\ (last.raised = "") <=> (N >= 1)
            /\ last.raised = "" =>
                /\ Len(last.mean) = N
                /\ Len(last.var) = N
                /\ last.queries = rows
                /\ \A i \in 1..N :
                     LET p == ForestPredict(rf_fit.v, rows[i])
                     IN  /\ last.mean[i] = p[1]
                         /\ last.var[i] = (IF p[2].nan \/ BelowFloor(p[2])
                                           THEN Floor ELSE p[2])
                         /\ ~last.var[i].nan
                         /\ ~BelowFloor(last.var[i])

C6_Witness ==
    /\ last.op = "_predict"
    /\ last.arg.ndim = 2
    /\ Len(last.arg.v) = 2
    /\ ForestPredict(rf_fit.v, last.arg.v[1])[2].nan
    /\ ForestPredict(rf_fit.v, last.arg.v[2])[2] = FromInt(1)
    /\ last.var = <<Floor, FromInt(1)>>

C8_TrainReplaces ==
    (last.op = "train" /\ last.raised = "") =>
        LET Xa == last.arg[1]
            Ya == last.arg[2]
        IN  /\ X = Some(Xa)
            /\ Y = Some(Ya)
            /\ rf_fit.some
            /\ rf_fit.v.data = <<Xa, [i \in 1..Len(Ya) |-> Ya[i][1]], types>>

C8_Witness ==
    /\ last.op = "train"
    /\ last.raised = ""
    /\ X = Some(<< <<1>> >>)
    /\ Y = Some(<< <<0, 1>> >>)
    /\ rf_fit.v.data = << << <<1>> >>, <<0>>, types >>

\* C9: no call changes what __init__ set (feature specification, instance
\* features, hyperparameter list, the forest's settings, seed, the variance
\* floor 10^-5); predict and _predict also leave X, Y and the fit alone, and
\* the same prediction call made twice in a row returns the same.
C9_Frame ==
    [][pc = "ready" =>
        /\ types' = types
        /\ instance_features' = instance_features
        /\ hypers' = hypers
        /\ rf' = rf
        /\ seed' = seed
        /\ var_threshold' = var_threshold
        /\ var_threshold' = Floor
        /\ last'.op \in {"predict", "_predict"} =>
             /\ X' = X
             /\ Y' = Y
             /\ rf_fit' = rf_fit
        /\ (last.op = "predict" /\ last'.op = "predict"
              /\ last'.arg = last.arg) => last' = last
        /\ (last.op = "_predict" /\ last'.op = "_predict"
              /\ last'.arg.ndim = last.arg.ndim
              /\ last'.arg.v = last.arg.v) => last' = last]_vars

C9_Witness ==
    /\ last.op = "predict"
    /\ X.some
    /\ rf_fit.some
    /\ rf_fit.v.data[1] = X.v
    /\ var_threshold = Floor
    /\ hypers[5] = DefaultRatioFeatures

\* C10: a train call that raises has already stored its X and Y, which stay
\* stored; when building the container raises, fit is never reached and the
\* previous fit stays as it was.
C10_FailedTrainKeepsArguments ==
    [][(last'.op = "train" /\ last'.raised # "") =>
        /\ X' = Some(last'.arg[1])
        /\ Y' = Some(last'.arg[2])
        /\ last'.raised \in {"IndexError", "ContainerError"} =>
             rf_fit' = rf_fit]_vars

C10_Witness ==
    /\ last.op = "train"
    /\ last.raised = "ContainerError"
    /\ rf_fit.some
    /\ X = Some(last.arg[1])
    /\ rf_fit.v.data[1] # X.v

====
